---- MODULE Spec2Model ----
(***************************************************************************)
(* retls: a TLS re-encryption proxy (src/main.rs).                         *)
(*                                                                         *)
(* main loads the certificate chain and the private key, builds the server *)
(* TLS configuration, binds the listen socket and then accepts in a loop,  *)
(* spawning one task per accepted socket.  Each task (handle) performs the *)
(* inbound TLS handshake, races establish_backend_connection against       *)
(* tokio::time::sleep(timeout) in a select!, and on success relays bytes   *)
(* with tokio::io::copy_bidirectional.                                     *)
(***************************************************************************)
EXTENDS Naturals, Sequences, FiniteSets

VARIABLES
  opt,       \* the leaked, immutable Opt: backend, backend_server_name, cert, key
  backend_cert, \* the certificate the backend serves in a TLS handshake
  main_pc,   \* position of main: load_certs, load_keys, build_config, bind, accept, exited
  exit_by,   \* why main ended: none, cert, key, panic, config, bind, accept
  sock,      \* the listen socket: unbound, bound, closed
  accepted,  \* number of sockets sock.accept() has returned
  sess       \* the spawned tasks, one per accepted socket

vars == <<opt, backend_cert, main_pc, exit_by, sock, accepted, sess>>

(***************************************************************************)
(* Bounds of the model.                                                    *)
(***************************************************************************)
MaxSessions == 2
MaxBytes == 2

Sessions == 1..MaxSessions
Bytes == {"x", "y"}
Dirs == {"a2b", "b2a"}

(***************************************************************************)
(* Strings are sequences of characters, so that starts_with, strip_prefix  *)
(* and the server-name parse are computed on the text.                     *)
(***************************************************************************)
TlsPrefix == <<"t", "l", "s", ":">>

Backends ==
  { <<"t", "l", "s", ":", "h">>,
    <<"h">>,
    <<"t", "l", "s", "h">>,
    <<"t", "l", "s", ":">> }

ServerNames == { <<"h">>, <<"h", " ">> }

FileStates == {"valid", "missing", "unparsable"}
KeyFileStates == FileStates \cup {"nokey"}

\* str::starts_with
StartsWithShort(s, p) ==
  /\ Len(s) >= Len(p) - 1
  /\ \A i \in 1..(Len(p) - 1) : s[i] = p[i]

StartsWith(s, p) ==
  /\ Len(s) >= Len(p)
  /\ \A i \in 1..Len(p) : s[i] = p[i]

\* str::strip_prefix(..).unwrap(), called only when the prefix is there
StripPrefix(s, p) == SubSeq(s, Len(p) + 1, Len(s))

\* rustls::ServerName::try_from(&str): a DNS name is a non-empty sequence of
\* letters, digits, '-' and '.'.
NameChars == {"h", "0", "-", "."}

IsValidServerName(n) ==
  /\ Len(n) > 0
  /\ \A i \in 1..Len(n) : n[i] \in NameChars

(***************************************************************************)
(* Certificates a backend may present, by the three checks a verifier      *)
(* could make.                                                             *)
(***************************************************************************)
Certs == [host_ok : BOOLEAN, in_validity : BOOLEAN, trusted : BOOLEAN]

GoodCert == [host_ok |-> TRUE, in_validity |-> TRUE, trusted |-> TRUE]

\* the descriptors whose first four characters are t, l, s and a colon
HasTlsScheme(d) == Len(d) >= 4 /\ SubSeq(d, 1, 4) = <<"t", "l", "s", ":">>

verify_server_cert_strict(cert) ==
  IF cert.host_ok /\ cert.in_validity /\ cert.trusted THEN "Ok" ELSE "Err"

\* DangerouslyAcceptAnyCert::verify_server_cert
verify_server_cert(cert) == "Ok"

(***************************************************************************)
(* One direction of copy_bidirectional.                                    *)
(*   sent  what the peer on the reading side has written so far            *)
(*   nread how many of those bytes the copy has read                       *)
(*   buf   bytes read and not yet written                                  *)
(*   dlv   bytes written to the peer on the writing side                   *)
(*   st    running, or done (the peer closed its writing half, the copy    *)
(*         read end-of-stream, flushed and shut its writer down)           *)
(***************************************************************************)
InitDir ==
  [sent |-> <<>>, nread |-> 0, buf |-> <<>>, dlv |-> <<>>, st |-> "running"]

InitSession ==
  [phase |-> "free",      \* free, handshake, select, pump, done, failed, killed
   err |-> "none",
   outcome |-> "none",    \* which select! branch completed: connector, deadline
   invoked |-> 0,         \* calls of establish_backend_connection
   stage |-> "idle",      \* the connector future: idle, start, tcp, tls, ready
   conn |-> "none",       \* none, inflight, completed, abandoned
   late |-> FALSE,        \* the backend answered an abandoned attempt
   timer |-> "unset",     \* the sleep future: unset, armed, fired, dropped
   inbound |-> "none",    \* none, open, closed
   backend |-> "none",    \* none, connecting, open, closed
   tls |-> FALSE,         \* the outbound stream is a TlsStream
   target |-> <<>>,       \* the address TcpStream::connect was given
   enc |-> FALSE,         \* the connector took the "tls:" branch
   shown |-> FALSE,       \* the backend presented its certificate
   hs_fault |-> FALSE,    \* the outbound handshake broke for another reason
   ioerr |-> FALSE,       \* copy_bidirectional returned Err
   logged |-> FALSE,      \* log::error!("Error handling connection ..") ran
   client_config |-> FALSE, \* this call built a rustls::ClientConfig
   killed_in |-> "none",  \* the phase the end of the process found the task in
   a2b |-> InitDir,
   b2a |-> InitDir]

Live == {"handshake", "select", "pump"}

RECURSIVE SumSent(_)
SumSent(S) ==
  IF S = {} THEN 0
  ELSE LET k == CHOOSE x \in S : TRUE
       IN Len(sess[k].a2b.sent) + Len(sess[k].b2a.sent) + SumSent(S \ {k})

TotalSent == SumSent(Sessions)

(***************************************************************************)
(* Init: main is entered with the parsed options.                          *)
(***************************************************************************)
Init ==
  /\ opt \in [backend : Backends, backend_server_name : ServerNames,
              cert : FileStates, key : KeyFileStates]
  /\ backend_cert \in Certs
  /\ ~HasTlsScheme(opt.backend) => backend_cert = GoodCert
  /\ main_pc = "load_certs"
  /\ exit_by = "none"
  /\ sock = "unbound"
  /\ accepted = 0
  /\ sess = [k \in Sessions |-> InitSession]

(***************************************************************************)
(* main: startup.                                                          *)
(***************************************************************************)
\* load_certs: File::open fails on a missing file, certs() on an unparsable one
load_certs(f) == IF f = "valid" THEN "Ok" ELSE "Err"

\* A load_keys that reports no failure
load_keys_lenient(f) == "Ok"

\* load_keys: File::open fails on a missing file, pkcs8_private_keys() on an
\* unparsable one; a file holding no PKCS#8 key gives an empty vector
load_keys(f) ==
  IF f = "valid" THEN "Ok" ELSE IF f = "nokey" THEN "Empty" ELSE "Err"

Exit(why) ==
  /\ main_pc' = "exited"
  /\ exit_by' = why

LoadCerts ==
  /\ main_pc = "load_certs"
  /\ IF load_certs(opt.cert) = "Ok"
       THEN main_pc' = "load_keys" /\ exit_by' = exit_by
       ELSE Exit("cert")
  /\ UNCHANGED <<opt, backend_cert, sock, accepted, sess>>

\* let mut keys = load_keys(&opt.key)?; keys.remove(0) panics on an empty
\* vector
LoadKeys ==
  /\ main_pc = "load_keys"
  /\ IF load_keys(opt.key) = "Ok"
       THEN main_pc' = "build_config" /\ exit_by' = exit_by
       ELSE IF load_keys(opt.key) = "Empty" THEN Exit("panic") ELSE Exit("key")
  /\ UNCHANGED <<opt, backend_cert, sock, accepted, sess>>

\* ServerConfig::builder()...with_single_cert(certs, key): fails when the key
\* is of no supported type
BuildConfig ==
  /\ main_pc = "build_config"
  /\ \E ok \in BOOLEAN :
       IF ok THEN main_pc' = "bind" /\ exit_by' = exit_by
       ELSE Exit("config")
  /\ UNCHANGED <<opt, backend_cert, sock, accepted, sess>>

\* TcpListener::bind(&opt.listen).await?
Bind ==
  /\ main_pc = "bind"
  /\ \E ok \in BOOLEAN :
       IF ok THEN main_pc' = "accept" /\ exit_by' = exit_by /\ sock' = "bound"
       ELSE Exit("bind") /\ sock' = sock
  /\ UNCHANGED <<opt, backend_cert, accepted, sess>>

(***************************************************************************)
(* main: the accept loop.                                                  *)
(***************************************************************************)
\* An accept that starts the deadline timer together with the task
AcceptArmed ==
  /\ main_pc = "accept"
  /\ accepted < MaxSessions
  /\ accepted' = accepted + 1
  /\ sess' = [sess EXCEPT ![accepted + 1] =
                [@ EXCEPT !.phase = "handshake", !.inbound = "open",
                          !.timer = "armed"]]
  /\ UNCHANGED <<opt, backend_cert, main_pc, exit_by, sock>>

\* An accept loop that awaits handle() before it accepts again
AcceptSerial ==
  /\ main_pc = "accept"
  /\ accepted < MaxSessions
  /\ \A k \in Sessions : sess[k].phase \notin Live
  /\ accepted' = accepted + 1
  /\ sess' = [sess EXCEPT ![accepted + 1] =
                [@ EXCEPT !.phase = "handshake", !.inbound = "open"]]
  /\ UNCHANGED <<opt, backend_cert, main_pc, exit_by, sock>>

\* sock.accept() returned a socket: spawn handle() on it
Accept ==
  /\ main_pc = "accept"
  /\ accepted < MaxSessions
  /\ accepted' = accepted + 1
  /\ sess' = [sess EXCEPT ![accepted + 1] =
                [@ EXCEPT !.phase = "handshake", !.inbound = "open"]]
  /\ UNCHANGED <<opt, backend_cert, main_pc, exit_by, sock>>

\* Tasks that outlive the return of main
KilledNot(s) == s

\* What the end of the process does to a task: it is dropped where it stands.
\* Its memory goes with the process; its sockets are closed.
Killed(s) ==
  IF s.phase \in Live
    THEN [InitSession EXCEPT !.phase = "killed",
                             !.killed_in = s.phase,
                             !.outcome = s.outcome,
                             !.invoked = s.invoked,
                             !.inbound = "closed",
                             !.backend = IF s.backend = "none" THEN "none" ELSE "closed"]
    ELSE s

\* An accept error that is noted and followed by another accept
AcceptErrorRetried ==
  /\ main_pc = "accept"
  /\ exit_by = "none"
  /\ exit_by' = "accept"
  /\ UNCHANGED <<opt, backend_cert, main_pc, sock, accepted, sess>>

\* sock.accept().await? returned Err: main returns, the runtime is dropped
AcceptError ==
  /\ main_pc = "accept"
  /\ Exit("accept")
  /\ sock' = "closed"
  /\ sess' = [k \in Sessions |-> Killed(sess[k])]
  /\ UNCHANGED <<opt, backend_cert, accepted>>

(***************************************************************************)
(* handle: results of each step, as functions of the task's record.        *)
(***************************************************************************)
\* handle returned, and the backend socket outlives it
ClosedLeaky(s) ==
  [s EXCEPT !.inbound = "closed",
            !.timer = IF @ = "unset" THEN "unset" ELSE "dropped",
            !.conn = IF @ = "inflight" THEN "abandoned" ELSE @]

\* handle returned: stream (and backend, if any) are dropped
Closed(s) ==
  [s EXCEPT !.inbound = "closed",
            !.backend = IF @ = "none" THEN "none" ELSE "closed",
            !.timer = IF @ = "unset" THEN "unset" ELSE "dropped",
            !.conn = IF @ = "inflight" THEN "abandoned" ELSE @]

\* handle returned Err(e): the spawned task logs it
Failed(s, e) == [Closed(s) EXCEPT !.phase = "failed", !.err = e, !.logged = TRUE]

\* acceptor.accept(incoming).await succeeded; the select! is entered: both
\* futures are created
EnterSelect(s) ==
  [s EXCEPT !.phase = "select",
            !.invoked = @ + 1,
            !.stage = "start",
            !.conn = "inflight",
            !.timer = "armed"]

\* The sleep branch keeps the connector alive past the bail!
TimeoutEndLeaky(s) ==
  [s EXCEPT !.phase = "failed", !.err = "TimeoutError", !.outcome = "deadline",
            !.inbound = "closed", !.timer = "dropped", !.logged = TRUE]

\* The sleep branch of the select!: the connector future is dropped, bail!
TimeoutEnd(s) == [Failed(s, "TimeoutError") EXCEPT !.outcome = "deadline"]

\* The connector branch with res = Err(e): the failure retries the connector
ConnectorErrRetry(s, e) ==
  [s EXCEPT !.invoked = @ + 1, !.stage = "start", !.backend = "none"]

\* The connector branch of the select! with res = Err(e): with_context(..)?
ConnectorErr(s, e) ==
  [Failed([s EXCEPT !.conn = "completed"], e) EXCEPT !.outcome = "connector"]

\* The connector branch with res = Ok(backend), the sleep future kept alive
PumpStartArmed(s) ==
  [s EXCEPT !.phase = "pump", !.outcome = "connector", !.stage = "ready",
            !.conn = "completed", !.backend = "open"]

\* The connector branch of the select! with res = Ok(backend): the select!
\* has dropped the sleep future before its handler runs copy_bidirectional
PumpStart(s) ==
  [s EXCEPT !.phase = "pump", !.outcome = "connector", !.stage = "ready",
            !.conn = "completed", !.backend = "open", !.timer = "dropped"]

\* A task whose failure takes the other tasks down with it
SetPropagating(k, r) ==
  sess' = [j \in Sessions |->
             IF j = k THEN r
             ELSE IF r.phase = "failed" \/ r.ioerr THEN Killed(sess[j])
             ELSE sess[j]]

\* tokio::spawn(async move { .. }): a step of task k changes task k alone; an
\* Err from handle is logged inside the task
Set(k, r) == sess' = [sess EXCEPT ![k] = r]

Rest == <<opt, backend_cert, main_pc, exit_by, sock, accepted>>

Running == main_pc = "accept"

(***************************************************************************)
(* handle: the inbound handshake.                                          *)
(***************************************************************************)
InboundHandshakeOk(k) ==
  /\ Running
  /\ sess[k].phase = "handshake"
  /\ Set(k, EnterSelect(sess[k]))
  /\ UNCHANGED Rest

InboundHandshakeErr(k) ==
  /\ Running
  /\ sess[k].phase = "handshake"
  /\ Set(k, Failed(sess[k], "InboundHandshakeError"))
  /\ UNCHANGED Rest

(***************************************************************************)
(* establish_backend_connection, polled inside the select!.                *)
(*                                                                         *)
(* select! polls its branches in a random order and completes with the     *)
(* first one found ready.  A poll that completes the connector may         *)
(* therefore win even though the sleep has fired; a poll that leaves the   *)
(* connector pending after the sleep has fired completes with the sleep    *)
(* branch, which is SelectTimeout.                                         *)
(***************************************************************************)
\* if addr.starts_with("tls:")
UsesTls(addr) == StartsWith(addr, TlsPrefix)

\* the address handed to TcpStream::connect
ConnectAddr(addr) == IF UsesTls(addr) THEN StripPrefix(addr, TlsPrefix) ELSE addr

\* First poll of the connector: the branch is chosen, the client config is
\* built (tls branch) and TcpStream::connect is started.
ConnStart(k) ==
  /\ Running
  /\ sess[k].phase = "select"
  /\ sess[k].stage = "start"
  /\ sess[k].timer # "fired"
  /\ Set(k, [sess[k] EXCEPT !.stage = "tcp",
                            !.enc = UsesTls(opt.backend),
                            !.client_config = UsesTls(opt.backend),
                            !.target = ConnectAddr(opt.backend),
                            !.backend = "connecting"])
  /\ UNCHANGED Rest

\* TcpStream::connect(addr).await? returned Err
TcpConnectErr(k) ==
  /\ Running
  /\ sess[k].phase = "select"
  /\ sess[k].stage = "tcp"
  /\ Set(k, ConnectorErr(sess[k], "ConnectError"))
  /\ UNCHANGED Rest

\* A connector that parses server_name whatever the branch
AfterTcpConnectAlwaysParse(s, name) ==
  IF ~IsValidServerName(name) THEN ConnectorErr(s, "ConfigError")
  ELSE IF ~s.enc THEN PumpStart(s)
  ELSE [s EXCEPT !.stage = "tls", !.backend = "open"]

\* The relay starts as soon as the transport is connected
AfterTcpConnectNoHandshake(s, name) == PumpStart(s)

\* What follows TcpStream::connect(addr).await? = Ok(stream): the plain
\* branch returns the stream; the tls branch parses server_name and starts
\* connector.connect
AfterTcpConnect(s, name) ==
  IF ~s.enc THEN PumpStart(s)
  ELSE IF ~IsValidServerName(name) THEN ConnectorErr(s, "ConfigError")
  ELSE [s EXCEPT !.stage = "tls", !.backend = "open"]

\* TcpStream::connect(addr).await? returned Ok; an empty address resolves to
\* nothing and cannot connect
TcpConnectOk(k) ==
  /\ Running
  /\ sess[k].phase = "select"
  /\ sess[k].stage = "tcp"
  /\ sess[k].target # <<>>
  /\ LET r == AfterTcpConnect(sess[k], opt.backend_server_name)
     IN /\ r.phase = "select" => sess[k].timer # "fired"
        /\ Set(k, r)
  /\ UNCHANGED Rest

\* connector.connect(server_name, stream).await: the backend presents cert;
\* the handshake may also break for a reason that is not the certificate
AfterTlsHandshake(s, cert, fault) ==
  LET t == [s EXCEPT !.shown = TRUE, !.hs_fault = fault]
  IN IF verify_server_cert(cert) = "Ok" /\ ~fault
       THEN PumpStart([t EXCEPT !.tls = TRUE])
       ELSE ConnectorErr(t, "OutHandshakeError")

TlsHandshake(k) ==
  /\ Running
  /\ sess[k].phase = "select"
  /\ sess[k].stage = "tls"
  /\ \E fault \in BOOLEAN :
       Set(k, AfterTlsHandshake(sess[k], backend_cert, fault))
  /\ UNCHANGED Rest

\* The deadline of tokio::time::sleep(timeout) passes
TimerFire(k) ==
  /\ Running
  /\ sess[k].timer = "armed"
  /\ Set(k, [sess[k] EXCEPT !.timer = "fired"])
  /\ UNCHANGED Rest

\* The task polls the fired sleep future: bail!("timeout after ..")
SelectTimeout(k) ==
  /\ Running
  /\ sess[k].phase \in {"select", "pump"}
  /\ sess[k].timer = "fired"
  /\ Set(k, TimeoutEnd(sess[k]))
  /\ UNCHANGED Rest

\* The backend answers an attempt the proxy has already dropped
LateCompletion(k) ==
  /\ Running
  /\ sess[k].conn = "abandoned"
  /\ sess[k].stage \in {"tcp", "tls"}
  /\ ~sess[k].late
  /\ Set(k, [sess[k] EXCEPT !.late = TRUE])
  /\ UNCHANGED Rest

(***************************************************************************)
(* tokio::io::copy_bidirectional(&mut stream, &mut backend).               *)
(*                                                                         *)
(* Each direction reads what its peer has written, writes it to the other  *)
(* side and, on end-of-stream, flushes and shuts the writer down; the      *)
(* other direction goes on.  The future completes when both directions are *)
(* done, or at once with the first I/O error.  handle discards the result  *)
(* and returns Ok(()).                                                     *)
(***************************************************************************)
Dir(s, d) == IF d = "a2b" THEN s.a2b ELSE s.b2a

WithDir(s, d, r) ==
  IF d = "a2b" THEN [s EXCEPT !.a2b = r] ELSE [s EXCEPT !.b2a = r]

\* The peer that writes into direction d is being relayed.  (What a client
\* writes before the pump starts waits in the inbound stream and is read as
\* if written when the pump starts.)
PeerUp(s, d) == s.phase = "pump"

PeerSend(k, d) ==
  /\ Running
  /\ PeerUp(sess[k], d)
  /\ Dir(sess[k], d).st = "running"
  /\ TotalSent < MaxBytes
  /\ \E b \in Bytes :
       Set(k, WithDir(sess[k], d, [Dir(sess[k], d) EXCEPT !.sent = Append(@, b)]))
  /\ UNCHANGED Rest

\* poll_read: n more bytes enter the buffer
ReadInto(r, n) ==
  [r EXCEPT !.buf = @ \o SubSeq(r.sent, r.nread + 1, r.nread + n),
            !.nread = @ + n]

\* A poll_write that does not advance the buffer
WriteOutStuck(r, n) == [r EXCEPT !.dlv = @ \o SubSeq(r.buf, 1, n)]

\* poll_write accepted the first n bytes of the buffer
WriteOut(r, n) ==
  [r EXCEPT !.dlv = @ \o SubSeq(r.buf, 1, n),
            !.buf = SubSeq(@, n + 1, Len(@))]

CopyRead(k, d) ==
  /\ Running
  /\ sess[k].phase = "pump"
  /\ Dir(sess[k], d).st = "running"
  /\ \E n \in 1..(Len(Dir(sess[k], d).sent) - Dir(sess[k], d).nread) :
       Set(k, WithDir(sess[k], d, ReadInto(Dir(sess[k], d), n)))
  /\ UNCHANGED Rest

CopyWrite(k, d) ==
  /\ Running
  /\ sess[k].phase = "pump"
  /\ Dir(sess[k], d).st = "running"
  /\ \E n \in 1..Len(Dir(sess[k], d).buf) :
       Set(k, WithDir(sess[k], d, WriteOut(Dir(sess[k], d), n)))
  /\ UNCHANGED Rest

\* The peer closed its writing half, poll_read returned 0 bytes and the buffer
\* is flushed: this direction shuts its writer down and is done; the other
\* direction is untouched
AfterEof(s, d) == WithDir(s, d, [Dir(s, d) EXCEPT !.st = "done"])

CopyEof(k, d) ==
  /\ Running
  /\ sess[k].phase = "pump"
  /\ Dir(sess[k], d).st = "running"
  /\ Dir(sess[k], d).nread = Len(Dir(sess[k], d).sent)
  /\ Dir(sess[k], d).buf = <<>>
  /\ Set(k, AfterEof(sess[k], d))
  /\ UNCHANGED Rest

\* An I/O error that leaves the relay running
AfterIoErrorIgnored(s) == [s EXCEPT !.ioerr = TRUE]

\* The result of copy_bidirectional propagated with ?: handle returns Err
AfterIoErrorPropagated(s) == [Failed(s, "RelayError") EXCEPT !.ioerr = TRUE]

\* copy_bidirectional returned Err: let _ = ..; Ok(())
AfterIoError(s) == [Closed(s) EXCEPT !.phase = "done", !.ioerr = TRUE]

\* copy_bidirectional returned Ok: both directions are done
PumpFinish(k) ==
  /\ Running
  /\ sess[k].phase = "pump"
  /\ sess[k].a2b.st = "done"
  /\ sess[k].b2a.st = "done"
  /\ Set(k, [Closed(sess[k]) EXCEPT !.phase = "done"])
  /\ UNCHANGED Rest

\* a read or a write of either direction fails
PumpError(k) ==
  /\ Running
  /\ sess[k].phase = "pump"
  /\ ~sess[k].ioerr
  /\ Set(k, AfterIoError(sess[k]))
  /\ UNCHANGED Rest

(***************************************************************************)
(* The specification.                                                      *)
(***************************************************************************)
Next ==
  \/ LoadCerts
  \/ LoadKeys
  \/ BuildConfig
  \/ Bind
  \/ Accept
  \/ AcceptError
  \/ \E k \in Sessions : InboundHandshakeOk(k)
  \/ \E k \in Sessions : InboundHandshakeErr(k)
  \/ \E k \in Sessions : ConnStart(k)
  \/ \E k \in Sessions : TcpConnectErr(k)
  \/ \E k \in Sessions : TcpConnectOk(k)
  \/ \E k \in Sessions : TlsHandshake(k)
  \/ \E k \in Sessions : TimerFire(k)
  \/ \E k \in Sessions : SelectTimeout(k)
  \/ \E k \in Sessions : LateCompletion(k)
  \/ \E k \in Sessions, d \in Dirs : PeerSend(k, d)
  \/ \E k \in Sessions, d \in Dirs : CopyRead(k, d)
  \/ \E k \in Sessions, d \in Dirs : CopyWrite(k, d)
  \/ \E k \in Sessions, d \in Dirs : CopyEof(k, d)
  \/ \E k \in Sessions : PumpFinish(k)
  \/ \E k \in Sessions : PumpError(k)

Spec == Init /\ [][Next]_vars

(***************************************************************************)
(* Properties.                                                             *)
(***************************************************************************)
IsPrefix(a, b) == Len(a) <= Len(b) /\ SubSeq(b, 1, Len(a)) = a

Other(d) == IF d = "a2b" THEN "b2a" ELSE "a2b"

AllBadCert == [host_ok |-> FALSE, in_validity |-> FALSE, trusted |-> FALSE]

\* C1: Transparency.  In every session, at every moment, the bytes delivered
\* to the backend are a prefix of the bytes the client sent, and the bytes
\* delivered to the client are a prefix of the bytes the backend sent.
C1_Transparency ==
  \A k \in Sessions :
    /\ IsPrefix(sess[k].a2b.dlv, sess[k].a2b.sent)
    /\ IsPrefix(sess[k].b2a.dlv, sess[k].b2a.sent)

\* Two different bytes have been relayed, in order, to the backend.
C1_Witness ==
  \E k \in Sessions :
    /\ sess[k].a2b.dlv = <<"x", "y">>
    /\ sess[k].a2b.sent = <<"x", "y">>

\* A step of task k (not the end of the process)
Stepped(k) == sess'[k] # sess[k] /\ sess'[k].phase # "killed"

\* what the sleep branch leaves behind
TimedOut(s) ==
  /\ s.phase = "failed"
  /\ s.err = "TimeoutError"
  /\ s.conn = "abandoned"
  /\ s.inbound = "closed"
  /\ s.backend \in {"none", "closed"}
  /\ s.a2b.dlv = <<>>
  /\ s.b2a.dlv = <<>>

\* C2 as stated: Timeout enforcement.  Once the deadline has elapsed while
\* the connector has not completed, the session can only end with the timeout
\* failure (connector abandoned, nothing pumped, inbound stream closed).
C2_Original ==
  [][\A k \in Sessions :
       (sess[k].phase = "select" /\ sess[k].timer = "fired" /\ Stepped(k))
         => (sess'[k].outcome = "deadline" /\ TimedOut(sess'[k]))]_vars

\* C2 as amended: Timeout enforcement.  One timer runs from the invocation of
\* the connector over the transport connect and the outbound handshake.  Once
\* it has elapsed, the next poll of the race ends the session with the timeout
\* failure unless that same poll finds the connector complete; after a
\* timeout the connector is abandoned, a later answer of the backend changes
\* nothing, nothing is pumped and the inbound stream is closed.
C2_TimeoutEnforcement ==
  /\ [](\A k \in Sessions :
          /\ sess[k].outcome = "deadline" => TimedOut(sess[k])
          /\ sess[k].err = "TimeoutError" => sess[k].outcome = "deadline"
          /\ sess[k].phase = "select" => sess[k].timer \in {"armed", "fired"}
          /\ sess[k].late => TimedOut(sess[k]))
  /\ [][\A k \in Sessions :
          /\ (sess[k].phase = "select" /\ sess[k].timer = "fired" /\ Stepped(k)
                /\ sess'[k].outcome # "connector")
               => (sess'[k].outcome = "deadline" /\ TimedOut(sess'[k]))
          /\ (sess[k].phase = "select" /\ sess[k].timer = "fired" /\ Stepped(k))
               => sess'[k].phase # "select"
          /\ sess[k].outcome = "deadline" =>
               (sess'[k].phase = "failed" /\ sess'[k].conn = "abandoned")]_vars

\* The deadline elapsed during the outbound TLS handshake, and the backend
\* answered the abandoned attempt afterwards.
C2_Witness ==
  \E k \in Sessions :
    /\ sess[k].outcome = "deadline"
    /\ sess[k].stage = "tls"
    /\ sess[k].late

\* C3: Exactly one outcome, no retry.  A session that has left the race has
\* exactly one outcome, which never changes; a race with an elapsed deadline
\* is resolved by the next poll; establish_backend_connection is called at
\* most once per session, whatever the failure.
C3_OneOutcomeNoRetry ==
  /\ [](\A k \in Sessions :
          /\ sess[k].invoked <= 1
          /\ sess[k].phase \in {"free", "handshake", "select"} =>
               sess[k].outcome = "none"
          /\ sess[k].phase \in {"pump", "done"} => sess[k].outcome = "connector"
          /\ (sess[k].phase = "failed" /\ sess[k].err # "InboundHandshakeError") =>
               sess[k].outcome \in {"connector", "deadline"}
          /\ sess[k].outcome = "deadline" <=> sess[k].err = "TimeoutError"
          /\ sess[k].outcome = "connector" =>
               (sess[k].invoked = 1 /\ sess[k].conn \in {"completed", "none"}))
  /\ [][\A k \in Sessions :
          /\ sess[k].outcome # "none" => sess'[k].outcome = sess[k].outcome
          /\ sess[k].invoked = 1 => sess'[k].invoked = 1
          /\ (sess[k].phase = "select" /\ sess[k].timer = "fired" /\ Stepped(k))
               => sess'[k].outcome # "none"]_vars

\* A connector failure ended a session without a second call, next to a
\* session that the deadline ended.
C3_Witness ==
  \E j, k \in Sessions :
    /\ sess[j].outcome = "connector"
    /\ sess[j].err = "ConnectError"
    /\ sess[j].invoked = 1
    /\ sess[k].outcome = "deadline"

StreamsEnded(s, t) ==
  /\ t.phase = "done"
  /\ t.ioerr \/ (s.a2b.st = "done" /\ s.b2a.st = "done")

\* C5 as stated: the pump phase is not cancellable.  A session in the pump
\* phase ends only when a byte stream ends or errors.
C5_Original ==
  [][\A k \in Sessions :
       (sess[k].phase = "pump" /\ sess'[k].phase # "pump") =>
         StreamsEnded(sess[k], sess'[k])]_vars

\* C5 as amended: the pump phase is not cancellable by the connect deadline.
\* Once the pump has begun the sleep future is gone and no timeout failure
\* can follow; a session in the pump phase ends only when a byte stream ends
\* or errors, or when the process exits on an accept error.
C5_PumpNotCancellable ==
  /\ [](\A k \in Sessions :
          /\ sess[k].phase = "pump" => sess[k].timer = "dropped"
          /\ sess[k].outcome = "connector" => sess[k].err # "TimeoutError")
  /\ [][\A k \in Sessions :
          (sess[k].phase = "pump" /\ sess'[k].phase # "pump") =>
            \/ StreamsEnded(sess[k], sess'[k])
            \/ (sess'[k].phase = "killed" /\ main_pc' = "exited"
                  /\ exit_by' = "accept")]_vars

\* A session is relaying while the deadline has ended another one.
C5_Witness ==
  \E j, k \in Sessions :
    /\ sess[k].phase = "pump"
    /\ sess[k].timer = "dropped"
    /\ Len(sess[k].a2b.dlv) = 2
    /\ sess[j].err = "TimeoutError"

\* a failure of task k happens in this step
FailsNow(k) ==
  \/ sess[k].phase # "failed" /\ sess'[k].phase = "failed"
  \/ ~sess[k].ioerr /\ sess'[k].ioerr

\* C6: Session isolation.  A failure of session k (inbound handshake, backend
\* connect, outbound handshake, invalid server name, timeout, relay I/O
\* error) leaves the listener loop and every other session as they were, and
\* every session stays transparent.
C6_SessionIsolation ==
  /\ []C1_Transparency
  /\ [][\A k \in Sessions :
          FailsNow(k) =>
            /\ main_pc' = main_pc
            /\ sock' = sock
            /\ accepted' = accepted
            /\ \A j \in Sessions \ {k} : sess'[j] = sess[j]]_vars

\* A session whose backend could not be reached has failed next to a session
\* that has relayed bytes both ways, with the listener still accepting.
C6_Witness ==
  \E j, k \in Sessions :
    /\ sess[k].phase = "failed"
    /\ sess[k].err = "ConnectError"
    /\ sess[j].phase = "pump"
    /\ Len(sess[j].a2b.dlv) = 1
    /\ Len(sess[j].b2a.dlv) = 1
    /\ main_pc = "accept"

\* C7: Scheme dispatch.  The outbound connection is TLS-wrapped if and only
\* if the descriptor starts with "tls:", and the transport then connects to
\* the descriptor without that prefix; every other descriptor gives a
\* plaintext connection to the descriptor as given.
C7_SchemeDispatch ==
  \A k \in Sessions :
    /\ sess[k].stage \in {"tcp", "tls", "ready"} =>
         /\ sess[k].enc <=> HasTlsScheme(opt.backend)
         /\ sess[k].target =
              IF HasTlsScheme(opt.backend)
                THEN SubSeq(opt.backend, 5, Len(opt.backend))
                ELSE opt.backend
    /\ sess[k].phase \in {"pump", "done"} =>
         (sess[k].tls <=> HasTlsScheme(opt.backend))
    /\ sess[k].tls => sess[k].enc

\* A session relays over a TLS-wrapped connection to "h" for the descriptor
\* "tls:h".
C7_Witness ==
  \E k \in Sessions :
    /\ opt.backend = <<"t", "l", "s", ":", "h">>
    /\ sess[k].phase = "pump"
    /\ sess[k].tls
    /\ sess[k].target = <<"h">>

\* C8: Insecure trust is total.  Whatever certificate the backend presents
\* (host name matching or not, in validity or expired, trusted issuer or
\* not), an outbound handshake never fails because of it: one that fails
\* broke for another reason, and one that did not break gives a TLS-wrapped
\* connection.
C8_InsecureTrustTotal ==
  \A k \in Sessions :
    /\ sess[k].err = "OutHandshakeError" => sess[k].hs_fault
    /\ (sess[k].shown /\ ~sess[k].hs_fault) =>
         (sess[k].tls /\ sess[k].outcome = "connector" /\ sess[k].err = "none")

\* A session relays to a backend whose certificate has the wrong host name,
\* is expired and comes from an untrusted issuer.
C8_Witness ==
  \E k \in Sessions :
    /\ backend_cert = AllBadCert
    /\ sess[k].shown
    /\ sess[k].phase = "pump"
    /\ sess[k].tls

\* C9 as stated: an invalid server name fails at once with a ConfigError.  For
\* a "tls:" descriptor with an invalid server name no transport connection is
\* opened or awaited, and a session whose race has ended has failed with the
\* ConfigError.
C9_Original ==
  (HasTlsScheme(opt.backend) /\ ~IsValidServerName(opt.backend_server_name)) =>
    \A k \in Sessions :
      /\ sess[k].backend = "none"
      /\ sess[k].outcome # "none" => sess[k].err = "ConfigError"

C11_AcceptErrorFatal ==
  /\ [](exit_by = "accept" => (main_pc = "exited" /\ sock = "closed"))
  /\ [][exit_by = "accept" =>
          (accepted' = accepted /\ main_pc' = main_pc /\ exit_by' = exit_by)]_vars
  /\ [][(exit_by # "accept" /\ exit_by' = "accept") =>
          (main_pc = "accept" /\ main_pc' = "exited" /\ accepted' = accepted)]_vars

\* An accept error ended the loop after one connection, while another one
\* could still have been accepted.
C11_Witness ==
  /\ exit_by = "accept"
  /\ main_pc = "exited"
  /\ accepted = 1
  /\ accepted < MaxSessions

\* a task on which establish_backend_connection was never called
Untouched(s) ==
  /\ s.invoked = 0
  /\ s.timer = "unset"
  /\ s.stage = "idle"
  /\ s.backend = "none"
  /\ s.target = <<>>

\* C12: Stage ordering within one session.  The connector is not invoked and
\* the timer not started before the inbound handshake has succeeded; the pump
\* starts only out of the race, with a successful connector result (for a
\* "tls:" target, after the outbound handshake); a session whose inbound
\* handshake fails never opens a connection to the backend.
C12_StageOrdering ==
  /\ [](\A k \in Sessions :
          /\ sess[k].phase \in {"free", "handshake"} => Untouched(sess[k])
          /\ sess[k].err = "InboundHandshakeError" => Untouched(sess[k])
          /\ sess[k].killed_in = "handshake" => Untouched(sess[k])
          /\ sess[k].phase \in {"pump", "done"} =>
               /\ sess[k].stage = "ready"
               /\ sess[k].conn = "completed"
               /\ sess[k].outcome = "connector"
               /\ sess[k].err = "none"
               /\ sess[k].backend # "none"
               /\ sess[k].enc => (sess[k].tls /\ sess[k].shown))
  /\ [][\A k \in Sessions :
          /\ (sess[k].phase # "select" /\ sess'[k].phase = "select") =>
               sess[k].phase = "handshake"
          /\ (sess[k].phase # "pump" /\ sess'[k].phase = "pump") =>
               (sess[k].phase = "select" /\ sess[k].stage \in {"tcp", "tls"})
          /\ (sess[k].invoked = 0 /\ sess'[k].invoked > 0) =>
               (sess[k].phase = "handshake" /\ sess'[k].phase = "select")]_vars

\* A session whose inbound handshake failed never touched the backend, while
\* another session relays over a TLS-wrapped connection.
C12_Witness ==
  \E j, k \in Sessions :
    /\ sess[k].phase = "failed"
    /\ sess[k].err = "InboundHandshakeError"
    /\ sess[k].backend = "none"
    /\ sess[j].phase = "pump"
    /\ sess[j].tls

\* C13: Resource release on every exit path.  Whenever a session has ended
\* (inbound handshake failure, connect failure, outbound handshake failure,
\* invalid server name, timeout, pump completion, end of the process), its
\* inbound stream is closed and its backend stream, if one was opened, is
\* closed, a transport whose TLS handshake was in flight included.
C13_ResourceRelease ==
  \A k \in Sessions :
    /\ sess[k].phase \in {"done", "failed", "killed"} =>
         /\ sess[k].inbound = "closed"
         /\ sess[k].backend \in {"none", "closed"}
         /\ sess[k].timer \in {"unset", "dropped"}
         /\ sess[k].conn # "inflight"
    /\ sess[k].backend \in {"connecting", "open"} => sess[k].phase \in {"select", "pump"}
    /\ sess[k].inbound = "open" => sess[k].phase \in Live

\* The deadline ended a session whose transport was connected and whose
\* outbound TLS handshake was in flight: both streams are closed.
C13_Witness ==
  \E k \in Sessions :
    /\ sess[k].phase = "failed"
    /\ sess[k].err = "TimeoutError"
    /\ sess[k].stage = "tls"
    /\ sess[k].backend = "closed"
    /\ sess[k].inbound = "closed"

\* C14: One session per accepted socket, and the loop goes straight back to
\* accepting.  The sessions in existence are exactly the accepted sockets, an
\* accept creates one session and touches no other, and while the loop runs
\* (and the model's bound on connections is not reached) the next accept is
\* possible whatever the existing sessions are doing.
C14_AcceptIndependent ==
  /\ [](/\ \A k \in Sessions : sess[k].phase # "free" <=> k <= accepted
        /\ Cardinality({k \in Sessions : sess[k].phase # "free"}) = accepted
        /\ (main_pc = "accept" /\ accepted < MaxSessions) => ENABLED Accept)
  /\ [][accepted' # accepted =>
          /\ accepted' = accepted + 1
          /\ main_pc' = "accept"
          /\ sess[accepted'].phase = "free"
          /\ sess'[accepted'].phase = "handshake"
          /\ \A j \in Sessions \ {accepted'} : sess'[j] = sess[j]]_vars

\* The second connection was accepted, and relays, while the first one has
\* not finished its inbound handshake.
C14_Witness ==
  /\ MaxSessions >= 2
  /\ sess[1].phase = "handshake"
  /\ sess[2].phase = "pump"
  /\ main_pc = "accept"

C16_Original ==
  Cardinality({k \in Sessions : sess[k].client_config}) <= 1

\* C17: The inbound handshake is outside the deadline.  While a session is in
\* its inbound handshake no timer exists for it and its socket is open; a
\* session that failed by timeout had completed the inbound handshake and
\* entered the select!; and a session leaves the handshake phase only by
\* the handshake completing, by the handshake failing, or by the process
\* exiting on an accept error: never by a timeout.
C17_HandshakeOutsideDeadline ==
  /\ [](\A k \in Sessions :
          /\ sess[k].phase = "handshake" =>
               /\ sess[k].timer = "unset"
               /\ sess[k].inbound = "open"
               /\ sess[k].invoked = 0
          /\ sess[k].err = "TimeoutError" =>
               /\ sess[k].invoked = 1
               /\ sess[k].outcome = "deadline"
               /\ sess[k].timer = "dropped"
          /\ sess[k].timer # "unset" => sess[k].invoked = 1)
  /\ [][\A k \in Sessions :
          (sess[k].phase = "handshake" /\ sess'[k].phase # "handshake") =>
             \/ sess'[k].phase = "select" /\ sess'[k].timer = "armed"
             \/ sess'[k].phase = "failed" /\ sess'[k].err = "InboundHandshakeError"
             \/ sess'[k].phase = "killed" /\ exit_by' = "accept"]_vars

\* A session still waits in its inbound handshake, socket open, although
\* a session accepted after it has already run into the connect deadline.
C17_Witness ==
  /\ sess[1].phase = "handshake" /\ sess[1].inbound = "open"
  /\ sess[2].phase = "failed" /\ sess[2].err = "TimeoutError"

\* C18: For a backend descriptor without the "tls:" prefix the server name is
\* never parsed or used: whatever backend_server_name is, no session ends
\* with a ConfigError, no session builds a client config, sees a
\* certificate or gets a TLS stream, and a connector whose TCP connect
\* succeeded completes at once with the plain stream and starts the pump.
C18_PlainIgnoresServerName ==
  /\ [](~UsesTls(opt.backend) =>
          \A k \in Sessions :
            /\ sess[k].err # "ConfigError"
            /\ sess[k].err # "OutHandshakeError"
            /\ ~sess[k].enc /\ ~sess[k].client_config
            /\ ~sess[k].shown /\ ~sess[k].tls
            /\ sess[k].stage # "tls"
            /\ sess[k].target \in {<<>>, opt.backend})
  /\ [][~UsesTls(opt.backend) =>
          \A k \in Sessions :
            (/\ sess[k].phase = "select" /\ sess[k].stage = "tcp"
             /\ sess'[k].conn = "completed"
             /\ sess'[k].err # "ConnectError") =>
               /\ sess'[k].phase = "pump"
               /\ sess'[k].backend = "open"
               /\ sess'[k].err = "none"]_vars

\* A plaintext backend, a server name that does not parse, and a session that
\* has reached the pump and delivered a byte to the backend.
C18_Witness ==
  /\ ~UsesTls(opt.backend)
  /\ ~IsValidServerName(opt.backend_server_name)
  /\ \E k \in Sessions :
       /\ sess[k].phase = "pump"
       /\ sess[k].a2b.dlv # <<>>

\* C19: An accept error ends every in-flight session.  After the loop has
\* exited on an accept error no session is in the handshake, connect or pump
\* phase and no stream is open; the exit step turns every in-flight session
\* into a killed one (recording the phase it was in) and leaves the ended
\* ones as they were; a killed session exists only after such an exit; and a
\* session in the pump phase ends only by its own streams ending or erroring
\* or by this exit.
C19_AcceptErrorEndsSessions ==
  /\ [](exit_by = "accept" =>
          \A k \in Sessions :
            /\ sess[k].phase \notin Live
            /\ sess[k].inbound # "open"
            /\ sess[k].backend \notin {"connecting", "open"})
  /\ [](\A k \in Sessions :
          sess[k].phase = "killed" <=> sess[k].killed_in # "none")
  /\ [](\A k \in Sessions : sess[k].phase = "killed" => exit_by = "accept")
  /\ [][(exit_by # "accept" /\ exit_by' = "accept") =>
          \A k \in Sessions :
            IF sess[k].phase \in Live
              THEN sess'[k].phase = "killed" /\ sess'[k].killed_in = sess[k].phase
              ELSE sess'[k] = sess[k]]_vars
  /\ [][\A k \in Sessions :
          (sess[k].phase = "pump" /\ sess'[k].phase # "pump") =>
             \/ /\ sess'[k].phase = "done"
                /\ \/ sess'[k].ioerr
                   \/ sess[k].a2b.st = "done" /\ sess[k].b2a.st = "done"
             \/ sess'[k].phase = "killed" /\ exit_by # "accept" /\ exit_by' = "accept"]_vars

\* The loop has exited on an accept error that found one session relaying and
\* another one in its inbound handshake or backend connect.
C19_Witness ==
  /\ exit_by = "accept"
  /\ \E k \in Sessions : \E j \in Sessions \ {k} :
       /\ sess[k].phase = "killed" /\ sess[k].killed_in = "pump"
       /\ sess[j].phase = "killed" /\ sess[j].killed_in \in {"handshake", "select"}

====
